---- MODULE Spec2Model ----
(***************************************************************************)
(* Model of the battery firmware upgrade helper                            *)
(* (packages/upgrade_helper/helper.py, constants.py).                      *)
(*                                                                         *)
(* One run of UpgradeHelper is a main flow of control (pc, stack, ret)     *)
(* plus the watchdog thread that _battery_obtain_info spawns (wd_pc,       *)
(* elapsed).  The battery driver, the serial ports, the remote catalog,    *)
(* the file system and the flashing tool are the environment: what they    *)
(* answer is drawn with \E at the step that asks.                          *)
(*                                                                         *)
(* Text is a sequence of one-character strings; time is counted in         *)
(* tenths of a second.                                                     *)
(***************************************************************************)
EXTENDS Integers, Sequences, FiniteSets, TLC

----------------------------------------------------------------------------
(* constants.py *)

NOTHING_TO_DO == 255
SUCCESS == 1
HARDWARE_NOT_FOUND == 2
HARDWARE_BUSY == 3
HARDWARE_WRONG_MODE == 4
FIRMWARE_UP_TO_DATE == 5
FIRMWARE_NEEDS_UPDATE == 6
GENERIC_ERROR == 9

ExitCode ==
    { NOTHING_TO_DO, SUCCESS, HARDWARE_NOT_FOUND, HARDWARE_BUSY,
      HARDWARE_WRONG_MODE, FIRMWARE_UP_TO_DATE, FIRMWARE_NEEDS_UPDATE,
      GENERIC_ERROR }

PCB_VERSION_ID_EXIT_CODE_NONE == 0

READY == "ready"
BOOT == "boot"
BatteryMode == { READY, BOOT }

(* watchdog_fcn: timeout, step = 10, 0.5 seconds, in tenths of a second *)
WatchdogTimeout == 100
WatchdogStep == 5

(* upgrade_battery(self, dryrun, use_local_firmware) takes two arguments;  *)
(* start passes it four.                                                   *)
UpgradeBatteryParams == 2
UpgradeBatteryArgsPassed == 4

----------------------------------------------------------------------------
(* Bounds of the model *)

MaxOverrideLen == 2
MaxResponseLen == 3
MaxDevs == 2

----------------------------------------------------------------------------
(* Text *)

Digits == { "0", "1", "2", "3", "4", "5", "6", "7", "8", "9" }

DigitVal(c) ==
    CASE c = "0" -> 0 [] c = "1" -> 1 [] c = "2" -> 2 [] c = "3" -> 3
      [] c = "4" -> 4 [] c = "5" -> 5 [] c = "6" -> 6 [] c = "7" -> 7
      [] c = "8" -> 8 [] c = "9" -> 9

StringsUpTo(alphabet, n) == UNION { [1..k -> alphabet] : k \in 0..n }

(* re.sub("[^0-9]+", "", s): s with every run of non-digits removed *)
RECURSIVE StripNonDigits(_)
StripNonDigits(s) ==
    IF s = <<>> THEN <<>>
    ELSE IF Head(s) \in Digits THEN <<Head(s)>> \o StripNonDigits(Tail(s))
    ELSE StripNonDigits(Tail(s))

(* int(s) for text over digits, letters and dots: a ValueError unless s is *)
(* a non-empty string of decimal digits                                    *)
IntParses(s) == s # <<>> /\ \A i \in 1..Len(s) : s[i] \in Digits

RECURSIVE IntOf(_)
IntOf(s) ==
    IF s = <<>> THEN 0
    ELSE 10 * IntOf(SubSeq(s, 1, Len(s) - 1)) + DigitVal(s[Len(s)])

----------------------------------------------------------------------------
(* Values a function returns: an int (an ExitCode or a PCB version), a     *)
(* device address (a str), a (latest_int, latest_str) tuple, the           *)
(* (None, None) tuple, or an exception leaving the function.               *)

IntV(n) == [kind |-> "int", int |-> n, str |-> <<>>, exc |-> "none"]
DevV(d) == [kind |-> "str", int |-> d, str |-> <<>>, exc |-> "none"]
TupleV(n, s) == [kind |-> "tuple", int |-> n, str |-> s, exc |-> "none"]
NoneTupleV == [kind |-> "nonetuple", int |-> 0, str |-> <<>>, exc |-> "none"]
RaiseV(e) == [kind |-> "raise", int |-> 0, str |-> <<>>, exc |-> e]

(* isinstance(res, int) *)
IsInt(v) == v.kind = "int"

----------------------------------------------------------------------------
(* helper.py, the parts that compute *)

(* faulty variant: the first branch looks at the required mode's list only *)
ModeDetectRequiredListOnly(mode_required, ready_devs, boot_devs) ==
    IF mode_required = READY
    THEN IF Len(ready_devs) <= 0
         THEN [res |-> IntV(HARDWARE_NOT_FOUND), msg |-> "Battery not detected"]
         ELSE [res |-> DevV(ready_devs[1]), msg |-> ""]
    ELSE IF Len(boot_devs) <= 0
         THEN [res |-> IntV(HARDWARE_NOT_FOUND), msg |-> "Battery not detected"]
         ELSE [res |-> DevV(boot_devs[1]), msg |-> ""]

(* _battery_device_mode_detect on the two lists _find_device returned:     *)
(* what it returns and the error it logs.  A device address /dev/ttyACMn   *)
(* is the number n.                                                        *)
_battery_device_mode_detect(mode_required, ready_devs, boot_devs) ==
    IF Len(boot_devs) + Len(ready_devs) <= 0
    THEN [res |-> IntV(HARDWARE_NOT_FOUND), msg |-> "Battery not detected"]
    ELSE IF mode_required = READY
    THEN IF Len(ready_devs) < 1
         THEN [res |-> IntV(HARDWARE_WRONG_MODE),
               msg |-> "in Boot Mode, needs Normal Mode: press ONCE"]
         ELSE [res |-> DevV(ready_devs[1]), msg |-> ""]
    ELSE IF mode_required = BOOT
    THEN IF Len(boot_devs) < 1
         THEN [res |-> IntV(HARDWARE_WRONG_MODE),
               msg |-> "in Normal Mode, needs Boot Mode: DOUBLE press"]
         ELSE [res |-> DevV(boot_devs[1]), msg |-> ""]
    ELSE [res |-> IntV(GENERIC_ERROR), msg |-> "Invalid mode given"]

(* faulty variant: int(latest_str) without the re.sub *)
ForcedFirmwareVersionNoStrip(latest_str) ==
    IF IntParses(latest_str)
    THEN TupleV(IntOf(latest_str), latest_str)
    ELSE IntV(GENERIC_ERROR)

(* _battery_get_latest_firmware_version, method 1: the forced version      *)
ForcedFirmwareVersion(latest_str) ==
    IF IntParses(StripNonDigits(latest_str))
    THEN TupleV(IntOf(StripNonDigits(latest_str)), latest_str)
    ELSE IntV(GENERIC_ERROR)

(* faulty variant: "000" + latest instead of latest + "000" *)
GetLatestPaddedLeft(response) ==
    IF ~response.ok THEN NoneTupleV
    ELSE LET padded == <<"0", "0", "0">> \o response.text
         IN  IF IntParses(response.text)
             THEN TupleV(IntOf(response.text),
                         <<"v", padded[1], ".", padded[2], ".", padded[3]>>)
             ELSE RaiseV("ValueError")

(* _get_latest_battery_firmware_available_for_pcb on what requests.get     *)
(* did: response.ok = FALSE is a transport failure, response.text the body *)
_get_latest_battery_firmware_available_for_pcb(response) ==
    IF ~response.ok THEN NoneTupleV
    ELSE LET padded == response.text \o <<"0", "0", "0">>
             major == padded[1]
             minor == padded[2]
             patch == padded[3]
         IN  IF IntParses(response.text)
             THEN TupleV(IntOf(response.text),
                         <<"v", major, ".", minor, ".", patch>>)
             ELSE RaiseV("ValueError")

(* fetch_lateset_fw on the tuple the catalog query returned *)
fetch_lateset_fw(latest) ==
    IF latest.kind = "nonetuple" THEN IntV(GENERIC_ERROR) ELSE latest

(* int(os.environ.get(ENV_KEY_PCB_VERSION)) *)
PcbVersionOfEnv(text) ==
    IF IntParses(text) THEN IntV(IntOf(text)) ELSE RaiseV("ValueError")

(* faulty variant: every transport error is a generic error *)
TransportOutcomeAlwaysGeneric(multiple_access) == GENERIC_ERROR

(* _battery_obtain_info, the except clause: "multiple access" in str(e)    *)
TransportOutcome(multiple_access) ==
    IF multiple_access THEN HARDWARE_BUSY ELSE GENERIC_ERROR

(* faulty variant: the watchdog allows one more step *)
TimedOutLate(t) == t > WatchdogTimeout + WatchdogStep

(* watchdog_fcn: elapsed > timeout *)
TimedOut(t) == t > WatchdogTimeout

(* faulty variant: PCB_VERSION is looked at before FORCE_BATTERY_FW_VERSION *)
StrategyHintFirst(force, hint) ==
    IF hint.set THEN "hint"
    ELSE IF force.set THEN "forced"
    ELSE "device"

(* _battery_get_latest_firmware_version: which of its methods applies,     *)
(* from the two environment variables                                      *)
Strategy(force, hint) ==
    IF force.set THEN "forced"
    ELSE IF hint.set THEN "hint"
    ELSE "device"

(* the bossac command line, by its form *)
FlashCommand(dryrun) == IF dryrun THEN "info" ELSE "erase-write-verify-reset"

----------------------------------------------------------------------------
(* The inputs and the environment's answers *)

Flags == [battery : BOOLEAN, hut : BOOLEAN, find_pcbid : BOOLEAN,
          check : BOOLEAN, dry_run : BOOLEAN, use_local_firmware : BOOLEAN]

NoFlags == [battery |-> FALSE, hut |-> FALSE, find_pcbid |-> FALSE,
            check |-> FALSE, dry_run |-> FALSE, use_local_firmware |-> FALSE]

(* FORCE_BATTERY_FW_VERSION: every short text over a digit, a zero and a   *)
(* letter, and the texts the specification names                           *)
OverrideTexts ==
    StringsUpTo({"v", "0", "2"}, MaxOverrideLen)
      \cup { <<"v", "2", ".", "3", ".", "1">>, <<"a", "b", "c">> }

(* PCB_VERSION *)
HintTexts == { <<"1", "6">>, <<"x">> }

(* An environment variable is fixed for the run and the run only reads it: *)
(* its value is drawn at the first os.environ.get and kept from then on.   *)
Unread == [read |-> FALSE, set |-> FALSE, val |-> <<>>]
EnvValues(texts) ==
    { [read |-> TRUE, set |-> FALSE, val |-> <<>>] }
      \cup { [read |-> TRUE, set |-> TRUE, val |-> t] : t \in texts }
EnvRead(var, texts) == IF var.read THEN { var } ELSE EnvValues(texts)

(* what _find_device can return for the two identifiers: at most MaxDevs   *)
(* attached boards, each under one identifier                              *)
Ports == 0 .. (MaxDevs - 1)
Range(f) == { f[i] : i \in DOMAIN f }
DevLists ==
    { l \in StringsUpTo(Ports, MaxDevs) :
        \A i, j \in 1..Len(l) : i # j => l[i] # l[j] }
DevListPairs ==
    { p \in DevLists \X DevLists : Range(p[1]) \cap Range(p[2]) = {} }

(* the info the battery driver reads from a board in ready mode *)
NoInfo == [some |-> FALSE, pcb_version |-> 0, version |-> <<>>]
BoardInfos ==
    { [some |-> TRUE, pcb_version |-> p, version |-> v] :
        p \in { 16, 21 },
        v \in { <<"1", ".", "2", ".", "0">>, <<"1", ".", "2", ".", "3">> } }

(* what the catalog's "latest" resource can answer *)
Responses ==
    { [ok |-> FALSE, text |-> <<>>] }
      \cup { [ok |-> TRUE, text |-> t] :
               t \in StringsUpTo({"1", "5", "x"}, MaxResponseLen)
                       \cup { <<"1", "2", "3">>, <<"1", "2", "0">> } }

----------------------------------------------------------------------------
VARIABLES
    entry,         \* the method the caller invokes: "start" or "upgrade_battery"
    parsed,        \* the argparse namespace given to start
    env_force,     \* os.environ[FORCE_BATTERY_FW_VERSION]
    env_hint,      \* os.environ[PCB_VERSION]
    pc,            \* the main flow's position
    stack,         \* the positions its pending calls return to
    ret,           \* the value the last call returned
    loc,           \* the local variables of the frames in progress
    devs,          \* what _find_device returned to the mode detection
    battery_info,  \* self._battery_info
    bat,           \* the Battery object of the session
    app_shutdown,  \* self.is_shutdown()
    wd_pc,         \* the watchdog thread's position
    elapsed,       \* the watchdog's elapsed, in tenths of a second
    outcomes,      \* what the invoked method returned to its caller
    crashed,       \* the exception that left the invoked method, or "none"
    h              \* what the run did to the outside, in order

vars == << entry, parsed, env_force, env_hint, pc, stack, ret, loc, devs,
           battery_info, bat, app_shutdown, wd_pc, elapsed, outcomes,
           crashed, h >>

NoDevs == [found |-> FALSE, ready_devs |-> <<>>, boot_devs |-> <<>>]
NoBattery == [created |-> FALSE, is_shutdown |-> FALSE, info |-> NoInfo]

Init ==
    /\ entry \in { "start", "upgrade_battery" }
    /\ parsed \in Flags
    /\ entry = "upgrade_battery" =>
         parsed = [NoFlags EXCEPT !.dry_run = parsed.dry_run,
                                  !.use_local_firmware = parsed.use_local_firmware]
    /\ env_force = Unread
    /\ env_hint = Unread
    /\ pc = "call"
    /\ stack = <<>>
    /\ ret = IntV(0)
    /\ devs = NoDevs
    /\ loc = [mode_required |-> READY, dev_addr |-> 0, dryrun |-> FALSE, use_local_firmware |-> FALSE,
              current_int |-> 0, current_str |-> <<>>, pcb_version |-> 0,
              latest_int |-> 0, latest_str |-> <<>>, fw_fpath |-> "none"]
    /\ battery_info = NoInfo
    /\ bat = NoBattery
    /\ app_shutdown = FALSE
    /\ wd_pc = "none"
    /\ elapsed = 0
    /\ outcomes = <<>>
    /\ crashed = "none"
    /\ h = [gate |-> <<>>, gate_error |-> "", sessions |-> 0, watchdogs |-> 0,
            shutdowns |-> [main |-> 0, watchdog |-> 0, external |-> 0],
            transport |-> "none",
            resolver |-> <<>>, catalog |-> <<>>, printed |-> <<>>,
            probes |-> <<>>, assets |-> <<>>, downloads |-> <<>>,
            flash |-> <<>>]

----------------------------------------------------------------------------
(* Control of the main flow *)

inputs == << entry, parsed >>
(* the caller's inputs and the lists of a mode detection: only the mode   *)
(* detection and its callers touch the lists                               *)
quiet == << entry, parsed, devs >>
envs == << env_force, env_hint >>
session == << bat, app_shutdown, wd_pc, elapsed >>

Goto(label) ==
    /\ pc' = label
    /\ UNCHANGED << stack, ret, outcomes, crashed >>

(* a call that returns to `back` *)
Call(label, back) ==
    /\ pc' = label
    /\ stack' = << back >> \o stack
    /\ UNCHANGED << ret, outcomes, crashed >>

(* return v: to the pending call, or out of the invoked method *)
Return(v) ==
    /\ ret' = v
    /\ crashed' = crashed
    /\ IF stack = <<>>
       THEN /\ pc' = "done"
            /\ stack' = stack
            /\ outcomes' = Append(outcomes, v.int)
       ELSE /\ pc' = Head(stack)
            /\ stack' = Tail(stack)
            /\ outcomes' = outcomes

(* an exception no frame handles leaves the invoked method *)
Crash(e) ==
    /\ pc' = "done"
    /\ stack' = <<>>
    /\ crashed' = e
    /\ UNCHANGED << ret, outcomes >>

----------------------------------------------------------------------------
(* start *)

Start ==
    /\ pc = "call"
    /\ entry = "start"
    /\ UNCHANGED << quiet, envs, loc, battery_info, session, h >>
    /\ IF ~parsed.battery /\ ~parsed.hut
       THEN Return(IntV(NOTHING_TO_DO))
       ELSE IF parsed.battery
       THEN IF parsed.find_pcbid
            THEN Goto("battery_find_pcb_version")
            ELSE IF parsed.check
            THEN Goto("battery_check_firmware_up_to_date")
            ELSE IF UpgradeBatteryArgsPassed > UpgradeBatteryParams
            THEN Crash("TypeError")
            ELSE Goto("upgrade_battery")
       ELSE Return(IntV(NOTHING_TO_DO))   \* upgrade_hut

(* upgrade_battery(dryrun, use_local_firmware) invoked by the caller itself *)
CallUpgradeBattery ==
    /\ pc = "call"
    /\ entry = "upgrade_battery"
    /\ loc' = [loc EXCEPT !.dryrun = parsed.dry_run,
                          !.use_local_firmware = parsed.use_local_firmware]
    /\ Goto("upgrade_battery")
    /\ UNCHANGED << quiet, envs, battery_info, session, h >>

----------------------------------------------------------------------------
(* _battery_device_mode_detect: the two _find_device calls, drawn, and the *)
(* decision on them; devs keeps the lists until the caller goes on         *)

ModeDetect ==
    /\ pc = "_battery_device_mode_detect"
    /\ \E p \in DevListPairs :
         LET g == _battery_device_mode_detect(loc.mode_required, p[1], p[2])
         IN  /\ devs' = [found |-> TRUE, ready_devs |-> p[1],
                         boot_devs |-> p[2]]
             /\ h' = [h EXCEPT !.gate = Append(@, loc.mode_required),
                               !.gate_error = g.msg]
             /\ Return(g.res)
    /\ UNCHANGED << inputs, envs, loc, battery_info, session >>

----------------------------------------------------------------------------
(* _battery_obtain_info: the main flow *)

(* faulty variant: the stored info is not looked at *)
NeverCached(info) == FALSE

(* self._battery_info is not None *)
CachedInfo(info) == info.some

ObtainInfoEnter ==
    /\ pc = "_battery_obtain_info"
    /\ UNCHANGED << quiet, envs, battery_info, session, h >>
    /\ IF CachedInfo(battery_info)
       THEN /\ Return(IntV(SUCCESS))
            /\ UNCHANGED loc
       ELSE /\ loc' = [loc EXCEPT !.mode_required = READY]
            /\ Call("_battery_device_mode_detect", "obtain.after_detect")

(* Battery(...), register_shutdown_callback, watchdog.start() and the call *)
(* of battery.start(block=True)                                            *)
ObtainAfterDetect ==
    /\ pc = "obtain.after_detect"
    /\ devs' = NoDevs
    /\ UNCHANGED << inputs, envs, loc, battery_info, app_shutdown >>
    /\ IF IsInt(ret)
       THEN /\ Return(ret)
            /\ UNCHANGED << bat, wd_pc, elapsed, h >>
       ELSE /\ bat' = [created |-> TRUE, is_shutdown |-> FALSE,
                       info |-> NoInfo]
            /\ wd_pc' = "loop"
            /\ elapsed' = 0
            /\ h' = [h EXCEPT !.sessions = @ + 1, !.watchdogs = @ + 1]
            /\ Goto("battery.start")

(* battery.start raises OSError or SerialException; multiple_access says   *)
(* whether "multiple access" is in its message                             *)
StartRaises ==
    /\ pc = "battery.start"
    /\ \E multiple_access \in BOOLEAN :
         /\ h' = [h EXCEPT
                    !.transport = IF multiple_access THEN "multiple access"
                                  ELSE "other",
                    !.shutdowns.main = @ + 1]
         /\ Return(IntV(TransportOutcome(multiple_access)))
    /\ bat' = [bat EXCEPT !.is_shutdown = TRUE]
    /\ UNCHANGED << quiet, envs, loc, battery_info, app_shutdown, wd_pc,
                    elapsed >>

(* battery.start(block=True) returns once the battery is shut down *)
StartReturns ==
    /\ pc = "battery.start"
    /\ bat.is_shutdown
    /\ Goto("battery.shutdown")
    /\ UNCHANGED << quiet, envs, loc, battery_info, session, h >>

(* faulty variant: the main flow goes to the join and leaves the shutdown *)
(* to the watchdog                                                        *)
MainShutdownLeftOut ==
    /\ pc = "battery.shutdown"
    /\ Goto("watchdog.join")
    /\ UNCHANGED << quiet, envs, loc, battery_info, session, h >>

(* battery.shutdown() after battery.start has returned *)
MainShutdown ==
    /\ pc = "battery.shutdown"
    /\ bat' = [bat EXCEPT !.is_shutdown = TRUE]
    /\ h' = [h EXCEPT !.shutdowns.main = @ + 1]
    /\ Goto("watchdog.join")
    /\ UNCHANGED << quiet, envs, loc, battery_info, app_shutdown, wd_pc,
                    elapsed >>

Join ==
    /\ pc = "watchdog.join"
    /\ wd_pc = "done"
    /\ IF ~bat.info.some
       THEN /\ Return(IntV(GENERIC_ERROR))
            /\ UNCHANGED battery_info
       ELSE /\ battery_info' = bat.info
            /\ Return(IntV(SUCCESS))
    /\ UNCHANGED << quiet, envs, loc, session, h >>

----------------------------------------------------------------------------
(* the battery driver and the process around the session *)

(* the driver reads the board's info while battery.start runs *)
DriverCapturesInfo ==
    /\ pc = "battery.start"
    /\ ~bat.info.some
    /\ \E i \in BoardInfos : bat' = [bat EXCEPT !.info = i]
    /\ UNCHANGED << quiet, envs, pc, stack, ret, outcomes, crashed, loc,
                    battery_info, app_shutdown, wd_pc, elapsed, h >>

(* DTProcess.shutdown: the flag, then the registered callbacks *)
ExternalShutdown ==
    /\ pc # "done"
    /\ ~app_shutdown
    /\ app_shutdown' = TRUE
    /\ IF bat.created
       THEN /\ bat' = [bat EXCEPT !.is_shutdown = TRUE]
            /\ h' = [h EXCEPT !.shutdowns.external = @ + 1]
       ELSE UNCHANGED << bat, h >>
    /\ UNCHANGED << quiet, envs, pc, stack, ret, outcomes, crashed, loc,
                    battery_info, wd_pc, elapsed >>

----------------------------------------------------------------------------
(* watchdog_fcn *)

(* one evaluation of the loop condition and, if it holds and the time is   *)
(* not up, one time.sleep(step)                                            *)
WatchdogPoll ==
    /\ wd_pc = "loop"
    /\ IF ~(app_shutdown \/ bat.is_shutdown) /\ ~bat.info.some
       THEN IF TimedOut(elapsed)
            THEN /\ wd_pc' = "shutdown"
                 /\ UNCHANGED elapsed
            ELSE /\ elapsed' = elapsed + WatchdogStep
                 /\ UNCHANGED wd_pc
       ELSE /\ wd_pc' = "shutdown"
            /\ UNCHANGED elapsed
    /\ UNCHANGED << quiet, envs, pc, stack, ret, outcomes, crashed, loc,
                    battery_info, bat, app_shutdown, h >>

(* faulty variant: the thread ends without the shutdown *)
WatchdogEndsWithoutShutdown ==
    /\ wd_pc = "shutdown"
    /\ wd_pc' = "done"
    /\ elapsed' = 0
    /\ UNCHANGED << quiet, envs, pc, stack, ret, outcomes, crashed, loc,
                    battery_info, bat, app_shutdown, h >>

(* battery.shutdown(), and the thread ends *)
WatchdogShutdown ==
    /\ wd_pc = "shutdown"
    /\ bat' = [bat EXCEPT !.is_shutdown = TRUE]
    /\ h' = [h EXCEPT !.shutdowns.watchdog = @ + 1]
    /\ wd_pc' = "done"
    /\ elapsed' = 0
    /\ UNCHANGED << quiet, envs, pc, stack, ret, outcomes, crashed, loc,
                    battery_info, app_shutdown >>

----------------------------------------------------------------------------
(* battery_find_pcb_version *)

FindPcbEnter ==
    /\ pc = "battery_find_pcb_version"
    /\ Call("_battery_obtain_info", "find_pcb.after_info")
    /\ UNCHANGED << quiet, envs, loc, battery_info, session, h >>

(* faulty variant: the failure of the read is passed on as it is *)
PcbVersionOrFailure(res, info) ==
    IF res # SUCCESS THEN res ELSE info.pcb_version

(* what battery_find_pcb_version returns after _battery_obtain_info *)
PcbVersionResult(res, info) ==
    IF res # SUCCESS THEN PCB_VERSION_ID_EXIT_CODE_NONE
    ELSE info.pcb_version

FindPcbAfterInfo ==
    /\ pc = "find_pcb.after_info"
    /\ Return(IntV(PcbVersionResult(ret.int, battery_info)))
    /\ UNCHANGED << quiet, envs, loc, battery_info, session, h >>

----------------------------------------------------------------------------
(* _battery_get_latest_firmware_version *)

ResolveEnter ==
    /\ pc = "_battery_get_latest_firmware_version"
    /\ UNCHANGED << quiet, battery_info, session >>
    /\ \E force \in EnvRead(env_force, OverrideTexts),
          hint \in EnvRead(env_hint, HintTexts) :
         LET method == Strategy(force, hint)
         IN  /\ h' = [h EXCEPT !.resolver = Append(@, method)]
             /\ env_force' = force
             /\ IF method = "forced"
                THEN \* method 1; PCB_VERSION is not read
                     /\ Return(ForcedFirmwareVersion(force.val))
                     /\ UNCHANGED << env_hint, loc >>
                ELSE IF method = "hint"
                THEN \* method 2.a
                     /\ env_hint' = hint
                     /\ LET pcb_ver == PcbVersionOfEnv(hint.val)
                        IN  IF pcb_ver.kind = "raise"
                            THEN /\ Crash(pcb_ver.exc)
                                 /\ UNCHANGED loc
                            ELSE /\ loc' = [loc EXCEPT
                                              !.pcb_version = pcb_ver.int]
                                 /\ Goto("fetch_lateset_fw")
                ELSE \* method 2.b
                     /\ env_hint' = hint
                     /\ Call("battery_find_pcb_version", "resolve.after_pcb")
                     /\ UNCHANGED loc

ResolveAfterPcb ==
    /\ pc = "resolve.after_pcb"
    /\ IF ret.int = PCB_VERSION_ID_EXIT_CODE_NONE
       THEN /\ Return(IntV(GENERIC_ERROR))
            /\ UNCHANGED loc
       ELSE /\ loc' = [loc EXCEPT !.pcb_version = ret.int]
            /\ Goto("fetch_lateset_fw")
    /\ UNCHANGED << quiet, envs, battery_info, session, h >>

(* fetch_lateset_fw(pcb_version): the catalog query and what it yields *)
FetchLatest ==
    /\ pc = "fetch_lateset_fw"
    /\ \E response \in Responses :
         LET latest == fetch_lateset_fw(
                 _get_latest_battery_firmware_available_for_pcb(response))
         IN  /\ h' = [h EXCEPT !.catalog = Append(@,
                         [pcb_version |-> loc.pcb_version,
                          response |-> response])]
             /\ IF latest.kind = "raise"
                THEN Crash(latest.exc)
                ELSE Return(latest)
    /\ UNCHANGED << quiet, envs, loc, battery_info, session >>

----------------------------------------------------------------------------
(* battery_check_firmware_up_to_date *)

CheckEnter ==
    /\ pc = "battery_check_firmware_up_to_date"
    /\ Call("_battery_obtain_info", "check.after_info")
    /\ UNCHANGED << quiet, envs, loc, battery_info, session, h >>

CheckAfterInfo ==
    /\ pc = "check.after_info"
    /\ IF ret.int # SUCCESS
       THEN /\ Return(ret)
            /\ UNCHANGED loc
       ELSE LET current_str == battery_info.version
                digits == StripNonDigits(current_str)
            IN  IF ~IntParses(digits)
                THEN /\ Crash("ValueError")
                     /\ UNCHANGED loc
                ELSE /\ loc' = [loc EXCEPT !.current_str = current_str,
                                           !.current_int = IntOf(digits)]
                     /\ Call("_battery_get_latest_firmware_version",
                             "check.after_latest")
    /\ UNCHANGED << quiet, envs, battery_info, session, h >>

(* faulty variant: equal versions count as an update *)
NeedsUpdateOrEqual(latest_int, current_int) == latest_int >= current_int

(* latest_int > current_int *)
NeedsUpdate(latest_int, current_int) == latest_int > current_int

CheckAfterLatest ==
    /\ pc = "check.after_latest"
    /\ IF IsInt(ret)
       THEN /\ Return(ret)
            /\ UNCHANGED h
       ELSE /\ h' = [h EXCEPT !.printed = Append(@,
                        [current |-> << "v" >> \o loc.current_str,
                         latest |-> ret.str])]
            /\ IF NeedsUpdate(ret.int, loc.current_int)
               THEN Return(IntV(FIRMWARE_NEEDS_UPDATE))
               ELSE Return(IntV(FIRMWARE_UP_TO_DATE))
    /\ UNCHANGED << quiet, envs, loc, battery_info, session >>

----------------------------------------------------------------------------
(* upgrade_battery *)

UpgradeEnter ==
    /\ pc = "upgrade_battery"
    /\ loc' = [loc EXCEPT !.mode_required = BOOT]
    /\ Call("_battery_device_mode_detect", "upgrade.after_detect")
    /\ UNCHANGED << quiet, envs, battery_info, session, h >>

UpgradeAfterDetect ==
    /\ pc = "upgrade.after_detect"
    /\ devs' = NoDevs
    /\ IF IsInt(ret)
       THEN /\ Return(ret)
            /\ UNCHANGED loc
       ELSE /\ loc' = [loc EXCEPT !.dev_addr = ret.int]
            /\ Goto("upgrade.probe")
    /\ UNCHANGED << inputs, envs, battery_info, session, h >>

(* faulty variant: the busy port is logged and the upgrade goes on *)
UpgradeProbeGoesOn ==
    /\ pc = "upgrade.probe"
    /\ \E busy \in BOOLEAN :
         h' = [h EXCEPT !.probes = Append(@, IF busy THEN "busy" ELSE "free")]
    /\ Goto("upgrade.firmware")
    /\ UNCHANGED << quiet, envs, loc, battery_info, session >>

(* with serial.Serial(dev_addr, BATTERY_PCB_BAUD_RATE) *)
UpgradeProbe ==
    /\ pc = "upgrade.probe"
    /\ \E busy \in BOOLEAN :
         /\ h' = [h EXCEPT !.probes =
                     Append(@, IF busy THEN "busy" ELSE "free")]
         /\ IF busy THEN Return(IntV(HARDWARE_BUSY))
            ELSE Goto("upgrade.firmware")
    /\ UNCHANGED << quiet, envs, loc, battery_info, session >>

LocalAssets == { "present", "missing", "DT_REPO_PATH unset" }

(* faulty variant: the upgrade goes to the resolver without PCB_VERSION *)
MissingHintIgnored(hint) == FALSE

(* os.environ.get(ENV_KEY_PCB_VERSION) is None *)
MissingHint(hint) == ~hint.set

(* faulty variant: a missing local asset falls back to the resolver and   *)
(* the download                                                           *)
UpgradeFirmwareFallsBack ==
    /\ pc = "upgrade.firmware"
    /\ UNCHANGED << quiet, env_force, battery_info, session >>
    /\ \E asset \in IF loc.use_local_firmware THEN { "present", "missing" }
                     ELSE { "missing" } :
         /\ h' = [h EXCEPT !.assets =
                     IF loc.use_local_firmware THEN Append(@, asset) ELSE @]
         /\ IF asset = "present"
            THEN /\ loc' = [loc EXCEPT !.fw_fpath = "local"]
                 /\ Goto("upgrade.flash")
                 /\ UNCHANGED env_hint
            ELSE /\ UNCHANGED loc
                 /\ \E hint \in EnvRead(env_hint, HintTexts) :
                      /\ env_hint' = hint
                      /\ IF MissingHint(hint)
                         THEN Return(IntV(GENERIC_ERROR))
                         ELSE Call("_battery_get_latest_firmware_version",
                                   "upgrade.after_latest")

(* the firmware to flash: the local asset, or the resolver and then the   *)
(* download                                                               *)
UpgradeFirmware ==
    /\ pc = "upgrade.firmware"
    /\ UNCHANGED << quiet, env_force, battery_info, session >>
    /\ IF loc.use_local_firmware
       THEN /\ UNCHANGED env_hint
            /\ \E asset \in LocalAssets :
                 /\ h' = [h EXCEPT !.assets = Append(@, asset)]
                 /\ IF asset = "DT_REPO_PATH unset"
                    THEN /\ Crash("TypeError")
                         /\ UNCHANGED loc
                    ELSE IF asset = "missing"
                    THEN /\ Return(IntV(GENERIC_ERROR))
                         /\ UNCHANGED loc
                    ELSE /\ loc' = [loc EXCEPT !.fw_fpath = "local"]
                         /\ Goto("upgrade.flash")
       ELSE /\ UNCHANGED << loc, h >>
            /\ \E hint \in EnvRead(env_hint, HintTexts) :
                 /\ env_hint' = hint
                 /\ IF MissingHint(hint)
                    THEN Return(IntV(GENERIC_ERROR))
                    ELSE Call("_battery_get_latest_firmware_version",
                              "upgrade.after_latest")

UpgradeAfterLatest ==
    /\ pc = "upgrade.after_latest"
    /\ IF IsInt(ret)
       THEN /\ Return(ret)
            /\ UNCHANGED loc
       ELSE LET pcb_ver == PcbVersionOfEnv(env_hint.val)
            IN  IF pcb_ver.kind = "raise"
                THEN /\ Crash(pcb_ver.exc)
                     /\ UNCHANGED loc
                ELSE /\ loc' = [loc EXCEPT !.latest_int = ret.int,
                                           !.latest_str = ret.str,
                                           !.pcb_version = pcb_ver.int]
                     /\ Goto("upgrade.download")
    /\ UNCHANGED << quiet, envs, battery_info, session, h >>

(* faulty variant: a failed download is tried again *)
UpgradeDownloadRetries ==
    /\ pc = "upgrade.download"
    /\ \E ok \in BOOLEAN :
         /\ h' = [h EXCEPT !.downloads =
                     Append(@, IF ok THEN "ok" ELSE "failed")]
         /\ IF ok
            THEN /\ loc' = [loc EXCEPT !.fw_fpath = "tmp"]
                 /\ Goto("upgrade.flash")
            ELSE /\ Goto("upgrade.download")
                 /\ UNCHANGED loc
    /\ UNCHANGED << quiet, envs, battery_info, session >>

(* open(fw_fpath, "wb"), requests.get(url).content *)
UpgradeDownload ==
    /\ pc = "upgrade.download"
    /\ \E ok \in BOOLEAN :
         /\ h' = [h EXCEPT !.downloads =
                     Append(@, IF ok THEN "ok" ELSE "failed")]
         /\ IF ok
            THEN /\ loc' = [loc EXCEPT !.fw_fpath = "tmp"]
                 /\ Goto("upgrade.flash")
            ELSE /\ Return(IntV(GENERIC_ERROR))
                 /\ UNCHANGED loc
    /\ UNCHANGED << quiet, envs, battery_info, session >>

ToolResults == { "zero", "nonzero", "not found" }

(* subprocess.check_call(cmd) *)
UpgradeFlash ==
    /\ pc = "upgrade.flash"
    /\ \E tool \in ToolResults :
         /\ h' = [h EXCEPT !.flash = Append(@,
                     [cmd |-> FlashCommand(loc.dryrun),
                      port |-> loc.dev_addr, fw_fpath |-> loc.fw_fpath,
                      tool |-> tool])]
         /\ IF tool = "zero" THEN Return(IntV(SUCCESS))
            ELSE IF tool = "nonzero" THEN Return(IntV(GENERIC_ERROR))
            ELSE Crash("FileNotFoundError")
    /\ UNCHANGED << quiet, envs, loc, battery_info, session >>

----------------------------------------------------------------------------
Main ==
    \/ Start
    \/ CallUpgradeBattery
    \/ ModeDetect
    \/ ObtainInfoEnter
    \/ ObtainAfterDetect
    \/ StartReturns
    \/ MainShutdown
    \/ Join
    \/ FindPcbEnter
    \/ FindPcbAfterInfo
    \/ ResolveEnter
    \/ ResolveAfterPcb
    \/ FetchLatest
    \/ CheckEnter
    \/ CheckAfterInfo
    \/ CheckAfterLatest
    \/ UpgradeEnter
    \/ UpgradeAfterDetect
    \/ UpgradeProbe
    \/ UpgradeFirmware
    \/ UpgradeAfterLatest
    \/ UpgradeDownload
    \/ UpgradeFlash

Watchdog == WatchdogPoll \/ WatchdogShutdown

(* StartRaises is the driver's doing, the except clause included *)
Environment == DriverCapturesInfo \/ StartRaises \/ ExternalShutdown

Next == Main \/ Watchdog \/ Environment

Spec == Init /\ [][Next]_vars

(* the threads are scheduled and time.sleep ends; the environment owes     *)
(* nothing                                                                 *)
FairSpec == Spec /\ WF_vars(Main) /\ WF_vars(Watchdog)

----------------------------------------------------------------------------
(* Sanity of the model: one watchdog at a time, so one wd_pc is enough     *)
OneWatchdogAtATime ==
    pc = "obtain.after_detect" => wd_pc \in { "none", "done" }

TypeOK ==
    /\ pc \in { "call", "done", "_battery_device_mode_detect",
                "_battery_obtain_info", "obtain.after_detect",
                "battery.start", "battery.shutdown", "watchdog.join",
                "battery_find_pcb_version", "find_pcb.after_info",
                "_battery_get_latest_firmware_version", "resolve.after_pcb",
                "fetch_lateset_fw", "battery_check_firmware_up_to_date",
                "check.after_info", "check.after_latest", "upgrade_battery",
                "upgrade.after_detect", "upgrade.probe", "upgrade.firmware",
                "upgrade.after_latest", "upgrade.download", "upgrade.flash" }
    /\ wd_pc \in { "none", "loop", "shutdown", "done" }
    /\ ret.kind \in { "int", "str", "tuple" }
    /\ Len(outcomes) <= 1

----------------------------------------------------------------------------
(* The claims *)

Done == pc = "done"

(* where the main flow is when _battery_obtain_info has just returned *)
AfterObtainInfo == pc \in { "find_pcb.after_info", "check.after_info" }

(* where it is when _battery_get_latest_firmware_version has just returned *)
AfterResolve == pc \in { "check.after_latest", "upgrade.after_latest" }

(* where it is when _battery_device_mode_detect has just returned *)
AfterModeDetect == pc \in { "obtain.after_detect", "upgrade.after_detect" }

(* C1: every invocation of start ends by returning exactly one Outcome of  *)
(* the closed set (or, for the board-revision query, the revision or 0);   *)
(* no run ends by an unhandled error.                                      *)
C1_StartReturnsOneOutcome ==
    (entry = "start" /\ Done) =>
        /\ crashed = "none"
        /\ Len(outcomes) = 1
        /\ \/ outcomes[1] \in ExitCode
           \/ /\ parsed.battery /\ parsed.find_pcbid
              /\ outcomes[1] \in { PCB_VERSION_ID_EXIT_CODE_NONE,
                                   battery_info.pcb_version }

(* C2: the check run of start on a board in ready mode that reports        *)
(* firmware 1.2.0, with the forced version "2", prints current v1.2.0 and  *)
(* latest v2.0.0 and returns FIRMWARE_NEEDS_UPDATE.                        *)
C2_CheckScenarioNeedsUpdate ==
    ( /\ entry = "start" /\ Done
      /\ parsed.battery /\ parsed.check /\ ~parsed.find_pcbid
      /\ battery_info.some
      /\ battery_info.version = <<"1", ".", "2", ".", "0">>
      /\ env_force.set /\ env_force.val = <<"2">> ) =>
        /\ outcomes = << FIRMWARE_NEEDS_UPDATE >>
        /\ h.printed = << [current |-> <<"v", "1", ".", "2", ".", "0">>,
                           latest |-> <<"v", "2", ".", "0", ".", "0">>] >>

(* the environment answered every question the run asked it the way the    *)
(* dry-run scenario states: board in boot mode, port free, asset present,  *)
(* the flashing tool exits with zero                                       *)
DryRunScenarioEnvironment ==
    /\ h.gate_error = ""
    /\ \A i \in 1..Len(h.probes) : h.probes[i] = "free"
    /\ \A i \in 1..Len(h.assets) : h.assets[i] = "present"
    /\ \A i \in 1..Len(h.flash) : h.flash[i].tool = "zero"

DryRunScenarioResult ==
    /\ outcomes = << SUCCESS >>
    /\ Len(h.flash) = 1
    /\ h.flash[1].cmd = "info"

(* C3: start for the battery with dry-run and use-local-firmware (no       *)
(* check, no find-pcbid), the board in boot mode, the port free and the    *)
(* asset present: the flashing tool is invoked exactly once, in info form, *)
(* and the run returns SUCCESS.                                            *)
C3_StartDryRunScenario ==
    ( /\ entry = "start" /\ Done
      /\ parsed.battery /\ ~parsed.check /\ ~parsed.find_pcbid
      /\ parsed.dry_run /\ parsed.use_local_firmware
      /\ DryRunScenarioEnvironment ) => DryRunScenarioResult

(* the same scenario when upgrade_battery(dryrun, use_local_firmware) is   *)
(* invoked with its own two arguments                                      *)
DryRunScenarioOfUpgradeBattery ==
    ( /\ entry = "upgrade_battery" /\ Done
      /\ parsed.dry_run /\ parsed.use_local_firmware
      /\ DryRunScenarioEnvironment ) => DryRunScenarioResult

----------------------------------------------------------------------------
(* the session got no info, no shutdown request and no transport error *)
Silent == ~bat.info.some /\ ~app_shutdown /\ h.transport = "none"

SilentSessionReturned ==
    AfterObtainInfo /\ h.sessions = 1 /\ Silent

(* C4: a session on a ready-mode board that never captures info, with no   *)
(* external shutdown request and no transport error, ends: the watchdog    *)
(* polls for at most timeout + poll (21 steps of 0.5 s), forces the        *)
(* shutdown, the read returns and _battery_obtain_info returns             *)
(* GENERIC_ERROR.                                                          *)
C4_SilentSessionEndsGenericError ==
    /\ [](elapsed <= WatchdogTimeout + WatchdogStep)
    /\ [](elapsed <= 21 * WatchdogStep)
    /\ [](SilentSessionReturned => ret = IntV(GENERIC_ERROR))
    /\ (pc = "battery.start" /\ Silent) ~> (~Silent \/ SilentSessionReturned)

C4_Witness ==
    /\ SilentSessionReturned
    /\ ret = IntV(GENERIC_ERROR)
    /\ h.shutdowns.watchdog = 1

(* C5: when the session's transport raises, _battery_obtain_info returns   *)
(* HARDWARE_BUSY if the error is the exclusive-access one and              *)
(* GENERIC_ERROR for any other; it stores no board info and does not       *)
(* return SUCCESS.                                                         *)
C5_TransportErrorOutcome ==
    h.transport # "none" =>
        /\ ~battery_info.some
        /\ AfterObtainInfo =>
             /\ ret.int # SUCCESS
             /\ ret = IntV(HARDWARE_BUSY) <=> h.transport = "multiple access"
             /\ ret = IntV(GENERIC_ERROR) <=> h.transport # "multiple access"

C5_Witness ==
    /\ AfterObtainInfo
    /\ h.transport = "multiple access"
    /\ ret = IntV(HARDWARE_BUSY)
    /\ bat.info.some

(* C6: the mode detection returns HARDWARE_NOT_FOUND when both lists are   *)
(* empty, whatever the required mode; HARDWARE_WRONG_MODE, with a message  *)
(* that differs between the two directions, when the required mode's list  *)
(* is empty and the other is not; and otherwise the first enumerated       *)
(* device of the required mode.                                            *)
C6_ModeGate ==
    (AfterModeDetect /\ devs.found) =>
        LET required == IF loc.mode_required = READY THEN devs.ready_devs
                        ELSE devs.boot_devs
            other == IF loc.mode_required = READY THEN devs.boot_devs
                     ELSE devs.ready_devs
        IN  IF required = <<>> /\ other = <<>>
            THEN ret = IntV(HARDWARE_NOT_FOUND)
            ELSE IF required = <<>>
            THEN /\ ret = IntV(HARDWARE_WRONG_MODE)
                 /\ h.gate_error =
                      IF loc.mode_required = READY
                      THEN "in Boot Mode, needs Normal Mode: press ONCE"
                      ELSE "in Normal Mode, needs Boot Mode: DOUBLE press"
            ELSE ret = DevV(required[1])

C6_Witness ==
    /\ AfterModeDetect
    /\ loc.mode_required = BOOT
    /\ devs.boot_devs = <<>>
    /\ Len(devs.ready_devs) = 2
    /\ ret = IntV(HARDWARE_WRONG_MODE)

----------------------------------------------------------------------------
LastCatalogQuery == h.catalog[Len(h.catalog)]

(* C7: the resolver's three methods in strict priority.  With a forced     *)
(* version neither the catalog nor the device is consulted; else with a    *)
(* PCB version given, the catalog is asked for exactly that revision and   *)
(* the device is not consulted; the device is consulted only when neither  *)
(* is given.  No later method follows an earlier one, failed or not.       *)
C7_ResolverPriority ==
    /\ Len(h.resolver) <= 1
    /\ (env_force.read /\ env_force.set) =>
         /\ h.catalog = <<>>
         /\ \A i \in 1..Len(h.resolver) : h.resolver[i] = "forced"
         /\ "resolve.after_pcb" \notin Range(stack)
    /\ (env_force.read /\ ~env_force.set /\ env_hint.read /\ env_hint.set) =>
         /\ \A i \in 1..Len(h.catalog) :
              /\ IntParses(env_hint.val)
              /\ h.catalog[i].pcb_version = IntOf(env_hint.val)
         /\ \A i \in 1..Len(h.resolver) : h.resolver[i] = "hint"
         /\ "resolve.after_pcb" \notin Range(stack)
    /\ ("resolve.after_pcb" \in Range(stack) \/ pc = "resolve.after_pcb") =>
         /\ env_force.read /\ ~env_force.set
         /\ env_hint.read /\ ~env_hint.set
         /\ h.resolver = << "device" >>

(* a forced version that fails, and nothing consulted after it *)
C7_Witness ==
    /\ AfterResolve
    /\ env_force.set /\ env_force.val = <<"a", "b", "c">>
    /\ env_hint.read /\ env_hint.set
    /\ ret = IntV(GENERIC_ERROR)
    /\ h.resolver = << "forced" >>

(* the digits of a text, in order, and the number they spell *)
DigitsOf(s) == SelectSeq(s, LAMBDA c : c \in Digits)

RECURSIVE Pow10(_)
Pow10(n) == IF n = 0 THEN 1 ELSE 10 * Pow10(n - 1)

RECURSIVE Spelled(_, _)
Spelled(d, i) ==
    IF i > Len(d) THEN 0
    ELSE DigitVal(d[i]) * Pow10(Len(d) - i) + Spelled(d, i + 1)

(* C8: with a forced version the resolver returns the number its digits    *)
(* spell, in order ("v2.3.1" gives 231), and GENERIC_ERROR when it has no  *)
(* digit ("abc"); the catalog is not invoked.                              *)
C8_ForcedOverride ==
    (AfterResolve /\ env_force.set) =>
        /\ h.catalog = <<>>
        /\ IF DigitsOf(env_force.val) = <<>>
           THEN ret = IntV(GENERIC_ERROR)
           ELSE /\ ret.kind = "tuple"
                /\ ret.int = Spelled(DigitsOf(env_force.val), 1)
        /\ env_force.val = <<"v", "2", ".", "3", ".", "1">> => ret.int = 231
        /\ env_force.val = <<"a", "b", "c">> => ret = IntV(GENERIC_ERROR)

C8_Witness ==
    /\ AfterResolve
    /\ env_force.set
    /\ env_force.val = <<"v", "2", ".", "3", ".", "1">>
    /\ ret.kind = "tuple" /\ ret.int = 231
    /\ h.catalog = <<>>

(* a response that is a transport failure or whose body is no number *)
BadMarker(response) ==
    \/ ~response.ok
    \/ response.text = <<>>
    \/ \E i \in 1..Len(response.text) : response.text[i] \notin Digits

(* C9: a transport failure and a parse failure of the catalog's marker     *)
(* both make the resolver return GENERIC_ERROR; none leaves as an          *)
(* unhandled error.                                                        *)
C9_CatalogFailureIsGenericError ==
    (h.catalog # <<>> /\ BadMarker(LastCatalogQuery.response)) =>
        /\ crashed = "none"
        /\ AfterResolve => ret = IntV(GENERIC_ERROR)

(* the transport failure is handled *)
CatalogTransportFailureIsGenericError ==
    (h.catalog # <<>> /\ ~LastCatalogQuery.response.ok) =>
        /\ crashed = "none"
        /\ AfterResolve => ret = IntV(GENERIC_ERROR)

CharOrZero(text, i) == IF i <= Len(text) THEN text[i] ELSE "0"

(* C10: for a catalog response of digits the display form is v{a}.{b}.{c}, *)
(* a, b, c its first three characters, zeros where it has fewer; "123"     *)
(* gives 123 and v1.2.3, "5" gives v5.0.0.                                 *)
C10_CatalogDisplayForm ==
    ( /\ AfterResolve
      /\ h.catalog # <<>>
      /\ ~BadMarker(LastCatalogQuery.response) ) =>
        LET text == LastCatalogQuery.response.text
        IN  /\ ret.kind = "tuple"
            /\ ret.str = << "v", CharOrZero(text, 1), ".",
                            CharOrZero(text, 2), ".", CharOrZero(text, 3) >>
            /\ text = <<"1", "2", "3">> =>
                 /\ ret.int = 123
                 /\ ret.str = <<"v", "1", ".", "2", ".", "3">>
            /\ text = <<"5">> => ret.str = <<"v", "5", ".", "0", ".", "0">>

C10_Witness ==
    /\ AfterResolve
    /\ h.catalog # <<>>
    /\ LastCatalogQuery.response.text = <<"5">>
    /\ ret.str = <<"v", "5", ".", "0", ".", "0">>

----------------------------------------------------------------------------
(* a run of the check workflow that has ended *)
CheckRunDone ==
    /\ entry = "start" /\ Done /\ crashed = "none"
    /\ parsed.battery /\ parsed.check /\ ~parsed.find_pcbid

(* the version resolution of the run succeeded, and the number it gave *)
ResolutionSucceeded ==
    /\ h.resolver # <<>>
    /\ IF env_force.set
       THEN DigitsOf(env_force.val) # <<>>
       ELSE h.catalog # <<>> /\ ~BadMarker(LastCatalogQuery.response)

ResolvedLatest ==
    IF env_force.set
    THEN Spelled(DigitsOf(env_force.val), 1)
    ELSE Spelled(LastCatalogQuery.response.text, 1)

(* the number the board's own version spells *)
CurrentNumeric == Spelled(DigitsOf(battery_info.version), 1)

(* C11: when the info read and the version resolution have both succeeded  *)
(* the check workflow returns FIRMWARE_NEEDS_UPDATE if and only if the      *)
(* latest number is strictly greater than the current one, and             *)
(* FIRMWARE_UP_TO_DATE otherwise: current 120 with latest 123 needs the     *)
(* update, current 123 with latest 123 is up to date.                      *)
C11_CheckComparison ==
    (CheckRunDone /\ battery_info.some /\ ResolutionSucceeded) =>
        /\ loc.current_int = CurrentNumeric
        /\ outcomes \in { << FIRMWARE_NEEDS_UPDATE >>,
                          << FIRMWARE_UP_TO_DATE >> }
        /\ outcomes = << FIRMWARE_NEEDS_UPDATE >>
             <=> ResolvedLatest > CurrentNumeric
        /\ (CurrentNumeric = 120 /\ ResolvedLatest = 123) =>
             outcomes = << FIRMWARE_NEEDS_UPDATE >>
        /\ (CurrentNumeric = 123 /\ ResolvedLatest = 123) =>
             outcomes = << FIRMWARE_UP_TO_DATE >>

(* 123 against 123 *)
C11_Witness ==
    /\ CheckRunDone /\ battery_info.some /\ ResolutionSucceeded
    /\ CurrentNumeric = 123 /\ ResolvedLatest = 123
    /\ outcomes = << FIRMWARE_UP_TO_DATE >>

(* 120 against 123 *)
C11_WitnessNeedsUpdate ==
    /\ CheckRunDone /\ battery_info.some /\ ResolutionSucceeded
    /\ CurrentNumeric = 120 /\ ResolvedLatest = 123
    /\ outcomes = << FIRMWARE_NEEDS_UPDATE >>

----------------------------------------------------------------------------
(* a run of the board-revision query that has ended *)
FindPcbRunDone ==
    /\ entry = "start" /\ Done /\ crashed = "none"
    /\ parsed.battery /\ parsed.find_pcbid

(* the mode detection refused, or the one session ended without info *)
NoRevisionObtained ==
    \/ h.gate_error # ""
    \/ h.sessions = 1 /\ wd_pc = "done" /\ ~bat.info.some
    \/ h.transport # "none"

C12_WitnessRevision ==
    /\ FindPcbRunDone
    /\ battery_info.some
    /\ outcomes = << 16 >>

----------------------------------------------------------------------------
(* a session was opened and its read has exited (by the join or by one of *)
(* the two except branches)                                                *)
ReadExited ==
    /\ h.sessions >= 1
    /\ pc \notin { "battery.start", "battery.shutdown", "watchdog.join" }

(* the calls of battery.shutdown() by the main flow and by the watchdog *)
ShutdownsByBoth == h.shutdowns.main + h.shutdowns.watchdog

(* C13 as stated: once the read has exited, the main flow and the watchdog *)
(* have together invoked the session's shutdown exactly once.              *)
C13_ShutdownExactlyOnce == ReadExited => ShutdownsByBoth = 1

(* C13, amended: once the read has exited the session is shut down and the *)
(* main flow has invoked the shutdown exactly once; the watchdog invokes   *)
(* it once more when it ends, which it has done on every path that exits   *)
(* by the join, so there the two have invoked it twice.                    *)
C13_ShutdownByMainOnce ==
    ReadExited =>
        /\ bat.is_shutdown
        /\ h.shutdowns.main = 1
        /\ h.shutdowns.watchdog <= 1
        /\ h.shutdowns.watchdog = 1 <=> wd_pc = "done"
        /\ h.transport = "none" => ShutdownsByBoth = 2

(* info captured, read returned: two invocations *)
C13_Witness ==
    /\ ReadExited
    /\ battery_info.some
    /\ h.shutdowns.main = 1 /\ h.shutdowns.watchdog = 1
    /\ h.shutdowns.external = 0

(* a transport error: the main flow's invocation alone so far *)
C13_WitnessTransport ==
    /\ ReadExited
    /\ h.transport = "other"
    /\ h.shutdowns.main = 1 /\ h.shutdowns.watchdog = 0

----------------------------------------------------------------------------
(* C14: in every session and every interleaving the session's shutdown     *)
(* comes before the end of the watchdog thread: the watchdog is never      *)
(* ended while the session is not shut down.                               *)
C14_ShutdownBeforeWatchdogEnds ==
    (h.watchdogs >= 1 /\ wd_pc = "done") =>
        /\ bat.is_shutdown
        /\ h.shutdowns.watchdog >= 1

(* the watchdog timed out, shut the session down and ended while the main  *)
(* flow is still in battery.start                                          *)
C14_Witness ==
    /\ wd_pc = "done"
    /\ pc = "battery.start"
    /\ bat.is_shutdown
    /\ ~bat.info.some
    /\ h.shutdowns = [main |-> 0, watchdog |-> 1, external |-> 0]

----------------------------------------------------------------------------
(* C15: whenever _battery_obtain_info has returned after it spawned a      *)
(* watchdog, on every exit path, the two except branches included, the     *)
(* watchdog thread has ended.                                              *)
C15_WatchdogEndedAtReturn ==
    (AfterObtainInfo /\ h.watchdogs >= 1) => wd_pc = "done"

(* the exits through watchdog.join() have it *)
WatchdogEndedAtJoinedReturn ==
    (AfterObtainInfo /\ h.watchdogs >= 1 /\ h.transport = "none") =>
        wd_pc = "done"

----------------------------------------------------------------------------
(* a run of the upgrade workflow that has ended *)
UpgradeRun ==
    \/ entry = "upgrade_battery"
    \/ entry = "start" /\ parsed.battery /\ ~parsed.find_pcbid /\ ~parsed.check

UpgradeRunDone == UpgradeRun /\ Done /\ crashed = "none"

WorkflowDone == CheckRunDone \/ UpgradeRunDone

(* the stages that failed with an Outcome, told from what the environment  *)
(* answered                                                                *)
GateFailed == h.gate_error # ""

GateOutcome ==
    IF h.gate_error = "Battery not detected" THEN HARDWARE_NOT_FOUND
    ELSE HARDWARE_WRONG_MODE

InfoFailed == ReadExited /\ ~battery_info.some

InfoOutcome ==
    IF h.transport = "multiple access" THEN HARDWARE_BUSY ELSE GENERIC_ERROR

ProbeFailed == "busy" \in Range(h.probes)

HintMissing ==
    UpgradeRun /\ ~loc.use_local_firmware /\ env_hint.read /\ ~env_hint.set

ResolverFailed ==
    /\ h.resolver # <<>>
    /\ \/ env_force.set /\ DigitsOf(env_force.val) = <<>>
       \/ h.catalog # <<>> /\ BadMarker(LastCatalogQuery.response)

AssetMissing == "missing" \in Range(h.assets)

DownloadFailed == "failed" \in Range(h.downloads)

FlashFailed == \E i \in 1..Len(h.flash) : h.flash[i].tool = "nonzero"

(* nothing of the stages after the resolver has happened *)
NothingAfterResolver ==
    h.printed = <<>> /\ h.downloads = <<>> /\ h.flash = <<>>

(* nothing of the stages after the probe has happened *)
NothingAfterProbe ==
    /\ h.resolver = <<>> /\ h.catalog = <<>> /\ h.assets = <<>>
    /\ NothingAfterResolver

(* C16: in the check and upgrade workflows a stage that fails with an      *)
(* Outcome ends the run with that Outcome and no later stage runs; the     *)
(* flashing tool is never invoked after a failure; SUCCESS is returned     *)
(* only after the flashing tool was invoked and exited with zero.          *)
C16_FailurePropagates ==
    /\ GateFailed =>
         /\ WorkflowDone => outcomes = << GateOutcome >>
         /\ h.sessions = 0 /\ h.probes = <<>> /\ NothingAfterProbe
    /\ InfoFailed =>
         /\ WorkflowDone => outcomes = << InfoOutcome >>
         /\ NothingAfterProbe
    /\ ProbeFailed =>
         /\ WorkflowDone => outcomes = << HARDWARE_BUSY >>
         /\ ~env_hint.read /\ NothingAfterProbe
    /\ HintMissing =>
         /\ WorkflowDone => outcomes = << GENERIC_ERROR >>
         /\ NothingAfterProbe
    /\ ResolverFailed =>
         /\ WorkflowDone => outcomes = << GENERIC_ERROR >>
         /\ NothingAfterResolver
    /\ AssetMissing =>
         /\ WorkflowDone => outcomes = << GENERIC_ERROR >>
         /\ h.flash = <<>>
    /\ DownloadFailed =>
         /\ WorkflowDone => outcomes = << GENERIC_ERROR >>
         /\ h.flash = <<>>
    /\ (FlashFailed /\ WorkflowDone) => outcomes = << GENERIC_ERROR >>
    /\ (WorkflowDone /\ SUCCESS \in Range(outcomes)) =>
         /\ Len(h.flash) = 1
         /\ h.flash[1].tool = "zero"
         /\ outcomes = << SUCCESS >>

(* the port was busy: HARDWARE_BUSY and nothing after the probe *)
C16_Witness ==
    /\ UpgradeRunDone
    /\ ProbeFailed
    /\ outcomes = << HARDWARE_BUSY >>
    /\ h.flash = <<>>

(* the download failed after a resolved version *)
C16_WitnessDownload ==
    /\ UpgradeRunDone
    /\ DownloadFailed
    /\ h.resolver # <<>>
    /\ outcomes = << GENERIC_ERROR >>

(* the check workflow after a session that gave no info *)
C16_WitnessCheck ==
    /\ CheckRunDone
    /\ InfoFailed
    /\ outcomes = << HARDWARE_BUSY >>

(* SUCCESS after the tool's zero *)
C16_WitnessSuccess ==
    /\ UpgradeRunDone
    /\ outcomes = << SUCCESS >>
    /\ h.downloads = << "ok" >>

----------------------------------------------------------------------------
(* C17: no retries.  In one run the device session, the port probe, the    *)
(* catalog query, the firmware download and the flashing tool are each     *)
(* attempted at most once, whether they succeed or fail.                   *)
C17_NoRetries ==
    /\ h.sessions <= 1
    /\ Len(h.probes) <= 1
    /\ Len(h.catalog) <= 1
    /\ Len(h.downloads) <= 1
    /\ Len(h.flash) <= 1

(* an upgrade that ended on its one failed download *)
C17_Witness ==
    /\ Done
    /\ h.downloads = << "failed" >>
    /\ Len(h.probes) = 1 /\ Len(h.catalog) = 1
    /\ h.flash = <<>>

(* a check that ended on its one failed session *)
C17_WitnessSession ==
    /\ Done
    /\ h.sessions = 1
    /\ h.transport = "other"
    /\ outcomes = << GENERIC_ERROR >>

(* an upgrade that ended on the tool's one failed invocation *)
C17_WitnessFlash ==
    /\ Done
    /\ Len(h.flash) = 1
    /\ h.flash[1].tool = "nonzero"

----------------------------------------------------------------------------
(* the runs of start that ask the board in ready mode *)
ReadyRun ==
    entry = "start" /\ parsed.battery /\ (parsed.find_pcbid \/ parsed.check)

(* C18: no run needs the board in both modes.  Within one run the mode     *)
(* detection is asked for READY only (check, board-revision query) or for  *)
(* BOOT only (upgrade); the upgrade never asks for READY and never opens a *)
(* session, because without PCB_VERSION it returns GENERIC_ERROR before    *)
(* the resolver could reach its device-derived method.                     *)
C18_SingleModePerRun ==
    /\ \A i, j \in 1..Len(h.gate) : h.gate[i] = h.gate[j]
    /\ ReadyRun => BOOT \notin Range(h.gate)
    /\ UpgradeRun =>
         /\ READY \notin Range(h.gate)
         /\ h.sessions = 0 /\ h.watchdogs = 0
         /\ ~battery_info.some
         /\ "device" \notin Range(h.resolver)
    /\ HintMissing =>
         /\ h.resolver = <<>>
         /\ UpgradeRunDone => outcomes = << GENERIC_ERROR >>

(* an upgrade on a board in boot mode, no PCB_VERSION: GENERIC_ERROR *)
C18_Witness ==
    /\ UpgradeRunDone
    /\ HintMissing
    /\ h.gate = << BOOT >>
    /\ h.probes = << "free" >>
    /\ outcomes = << GENERIC_ERROR >>

(* a check that resolved by the device-derived method, in ready mode *)
C18_WitnessCheck ==
    /\ CheckRunDone
    /\ h.gate = << READY >>
    /\ h.resolver = << "device" >>

----------------------------------------------------------------------------
(* the check workflow's device-derived lookup has got its answer from     *)
(* _battery_obtain_info                                                    *)
CachedRequestServed ==
    /\ pc = "find_pcb.after_info"
    /\ "resolve.after_pcb" \in Range(stack)

(* C19: in one run at most one session is opened and at most one watchdog  *)
(* is spawned; once the board info is captured every later request for it  *)
(* is served from the captured value, with no mode detection, no session   *)
(* and no watchdog, and the captured info never changes.                   *)
C19_OneSessionPerRun ==
    /\ [](h.sessions <= 1 /\ h.watchdogs <= 1)
    /\ [](CachedRequestServed =>
            /\ ret = IntV(SUCCESS)
            /\ battery_info.some
            /\ h.sessions = 1 /\ h.watchdogs = 1 /\ Len(h.gate) = 1)
    /\ [][battery_info.some =>
            /\ battery_info' = battery_info
            /\ h'.gate = h.gate
            /\ h'.sessions = h.sessions
            /\ h'.watchdogs = h.watchdogs
            /\ bat' = bat /\ wd_pc' = wd_pc]_vars

C19_Witness ==
    /\ CachedRequestServed
    /\ ret = IntV(SUCCESS)
    /\ h.sessions = 1 /\ h.watchdogs = 1 /\ h.gate = << READY >>
    /\ battery_info = bat.info

----------------------------------------------------------------------------
(* an upgrade run with use_local_firmware *)
UseLocalRun ==
    /\ UpgradeRun
    /\ parsed.use_local_firmware
    /\ pc # "call"

C20_WitnessPresent ==
    /\ UseLocalRun /\ Done
    /\ ~parsed.dry_run
    /\ h.assets = << "present" >>
    /\ Len(h.flash) = 1
    /\ h.flash[1].fw_fpath = "local"
    /\ h.flash[1].cmd = "erase-write-verify-reset"
    /\ outcomes = << SUCCESS >>

----------------------------------------------------------------------------
(* 100 * major + 10 * minor + patch of a display form v{major}.{minor}.{patch} *)
DisplayNumeric(str) ==
    100 * DigitVal(str[2]) + 10 * DigitVal(str[4]) + DigitVal(str[6])

(* the resolver has returned what the catalog answered, a body of digits *)
CatalogVersionResolved ==
    /\ AfterResolve
    /\ h.catalog # <<>>
    /\ ~BadMarker(LastCatalogQuery.response)
    /\ ret.kind = "tuple"

(* C21: the numeric and the display form of a version resolved from the    *)
(* catalog denote the same version: for every response of one to three     *)
(* digits the numeric is 100 * major + 10 * minor + patch of the display   *)
(* form, so that the order of the numerics is the order of the versions.   *)
C21_NumericMatchesDisplay ==
    (CatalogVersionResolved /\ Len(LastCatalogQuery.response.text) \in 1..3) =>
        ret.int = DisplayNumeric(ret.str)

(* the responses of three digits have it *)
NumericMatchesDisplayOfThreeDigits ==
    (CatalogVersionResolved /\ Len(LastCatalogQuery.response.text) = 3) =>
        ret.int = DisplayNumeric(ret.str)

(* what follows for the comparison: a board at 1.2.0 against the catalog's *)
(* "5", shown as v5.0.0, is never told to update                           *)
ShortMarkerNeverNeedsUpdate ==
    ( /\ CheckRunDone /\ battery_info.some
      /\ battery_info.version = <<"1", ".", "2", ".", "0">>
      /\ h.catalog # <<>>
      /\ LastCatalogQuery.response.ok
      /\ LastCatalogQuery.response.text = <<"5">> ) =>
        /\ h.printed = << [current |-> <<"v", "1", ".", "2", ".", "0">>,
                           latest |-> <<"v", "5", ".", "0", ".", "0">>] >>
        /\ outcomes = << FIRMWARE_UP_TO_DATE >>

====
